---- MODULE Spec2Model ----
(***************************************************************************)
(* Model of the text/sentiment analytics core of the climate-change tweet  *)
(* analysis program: SentimentAnalyzer (src/sentiment_analyzer.py).        *)
(*                                                                         *)
(* A message is a sequence of one-character strings; a token is a sequence *)
(* of characters as well (Str turns it into a TLA+ string).  A pandas      *)
(* Series and a collections.Counter are sequences of [key, val] entries in *)
(* the order the container keeps them.  Floating point results are kept as *)
(* exact integers: a percentage is a number of hundredths of a percent, a  *)
(* mean is a pair <<sum, n>>.                                              *)
(***************************************************************************)
EXTENDS Integers, Sequences, FiniteSets, TLC

VARIABLES data,     \* self.data: the record collection held by the analyzer
          ret,      \* the call made on the analyzer and its outcome
          log,      \* the events the call has sent to the logger
          sampler,  \* the sample and the score lists that the call of
                    \* perform_advanced_sentiment_analysis has built
          earlier,  \* what the caller keeps of the call of
                    \* perform_advanced_sentiment_analysis before this one
          app       \* the fields of the SentimentAnalysisApp (src/main.py)

vars == <<data, ret, log, sampler, earlier, app>>

----------------------------------------------------------------------------
(* Bounds of the model *)

MaxRecords == 2   \* records of a collection drawn over the whole corpus
MaxCount == 4     \* records of a collection that varies the sentiments only
MaxMsgLen == 4    \* characters of a message drawn over the alphabet

----------------------------------------------------------------------------
(* Characters *)

LowerLetters == {"a","b","c","d","e","f","g","h","i","j","k","l","m",
                 "n","o","p","q","r","s","t","u","v","w","x","y","z"}

UpperLetters == {"A","B","C","D","E","F","G","H","I","J","K","L","M",
                 "N","O","P","Q","R","S","T","U","V","W","X","Y","Z"}

Digits == {"0","1","2","3","4","5","6","7","8","9"}

\* str.lower() on one character
ToLower == [c \in UpperLetters |->
              CASE c = "A" -> "a" [] c = "B" -> "b" [] c = "C" -> "c"
                [] c = "D" -> "d" [] c = "E" -> "e" [] c = "F" -> "f"
                [] c = "G" -> "g" [] c = "H" -> "h" [] c = "I" -> "i"
                [] c = "J" -> "j" [] c = "K" -> "k" [] c = "L" -> "l"
                [] c = "M" -> "m" [] c = "N" -> "n" [] c = "O" -> "o"
                [] c = "P" -> "p" [] c = "Q" -> "q" [] c = "R" -> "r"
                [] c = "S" -> "s" [] c = "T" -> "t" [] c = "U" -> "u"
                [] c = "V" -> "v" [] c = "W" -> "w" [] c = "X" -> "x"
                [] c = "Y" -> "y" [] c = "Z" -> "z"]

LowerChar(c) == IF c \in UpperLetters THEN ToLower[c] ELSE c

\* the regular expression class \w: letters, digits and the underscore
IsWordChar(c) == c \in LowerLetters \cup UpperLetters \cup Digits \cup {"_"}

\* the regular expression class \s (and the separators of str.split())
IsSpaceChar(c) == c \in {" ", "\t", "\n"}

RECURSIVE Str(_)
\* the Python string made of the characters of w
Str(w) == IF w = <<>> THEN "" ELSE Head(w) \o Str(Tail(w))

----------------------------------------------------------------------------
(* The record collection *)

\* the sentiment codes of the record contract, and one code outside it
\* (the loader does not validate the column)
ContractCodes == {-1, 0, 1, 2}
Sentiments == ContractCodes \cup {3}

NaN == "NaN"

\* sentiment_mapping of DataLoader.preprocess_data; Series.map gives NaN
\* for a value that is not a key
sentiment_mapping(s) ==
    CASE s = -1 -> "Anti" [] s = 0 -> "Neutral" [] s = 1 -> "Pro"
      [] s = 2 -> "News" [] OTHER -> NaN

\* F(v), with v computed once
With(v, F(_)) == CHOOSE y \in {F(x) : x \in {v}} : TRUE

\* the sequence f with every element computed
Seq1(f) == f \o <<>>

\* the elements of seq at the set of positions pos, in their order in seq
At(seq, pos) ==
    With(pos, LAMBDA P :
        Seq1([k \in 1..Cardinality(P) |->
                seq[CHOOSE i \in P : Cardinality({j \in P : j < i}) = k - 1]]))

\* the positions of text where a maximal run of non-whitespace characters
\* starts
RunStarts(text) ==
    {i \in DOMAIN text :
        ~IsSpaceChar(text[i]) /\ (i = 1 \/ IsSpaceChar(text[i - 1]))}

\* the last position of the run that starts at position i
RunEnd(text, i) ==
    CHOOSE j \in i..Len(text) :
        /\ (j = Len(text) \/ IsSpaceChar(text[j + 1]))
        /\ \A k \in i..j : ~IsSpaceChar(text[k])

\* str.split(): the maximal runs of non-whitespace characters of text, in
\* order
Split(text) ==
    With(At([i \in DOMAIN text |-> i], RunStarts(text)), LAMBDA starts :
        Seq1([k \in DOMAIN starts |->
                SubSeq(text, starts[k], RunEnd(text, starts[k]))]))

\* str.strip() leaves the message unchanged
IsStripped(m) == m # <<>> /\ ~IsSpaceChar(m[1]) /\ ~IsSpaceChar(m[Len(m)])

\* a record as DataLoader.preprocess_data builds it from a sentiment code
\* and a stripped, non-empty message
Record(s, m) ==
    [sentiment |-> s, message |-> m, sentiment_label |-> sentiment_mapping(s),
     text_length |-> Len(m), word_count |-> Len(Split(m))]

\* "solar solar wind"
MsgSolar ==
    <<"s","o","l","a","r"," ","s","o","l","a","r"," ","w","i","n","d">>

\* "fake hoax fake"
MsgFake ==
    <<"f","a","k","e"," ","h","o","a","x"," ","f","a","k","e">>

\* "RT @Al_G: The ICE is melting! #ice http://t.co/x1"
MsgTweet ==
    <<"R","T"," ","@","A","l","_","G",":"," ","T","h","e"," ","I","C",
      "E"," ","i","s"," ","m","e","l","t","i","n","g","!"," ","#","i",
      "c","e"," ","h","t","t","p",":","/","/","t",".","c","o","/","x",
      "1">>

\* "eco ice sea wind fuel green earth ocean floods": nine words that hold a
\* climate keyword
MsgKeywords ==
    <<"e","c","o"," ","i","c","e"," ","s","e","a"," ","w","i","n","d",
      " ","f","u","e","l"," ","g","r","e","e","n"," ","e","a","r","t",
      "h"," ","o","c","e","a","n"," ","f","l","o","o","d","s">>

Corpus == {MsgSolar, MsgFake, MsgTweet, MsgKeywords}

\* "wind"
MsgWind == <<"w","i","n","d">>

Alphabet == {"w", "W", "_", "#", " ", "1"}

RECURSIVE SeqsUpTo(_, _)
\* the sequences of at most n elements of S
SeqsUpTo(S, n) ==
    IF n = 0 THEN {<<>>}
    ELSE LET shorter == SeqsUpTo(S, n - 1)
         IN  shorter \cup {Append(q, x) : q \in {r \in shorter : Len(r) = n - 1}, x \in S}

\* collections of records with contract codes and distinct messages of the
\* corpus
CorpusData ==
    {d \in SeqsUpTo({Record(s, m) : s \in ContractCodes, m \in Corpus},
                    MaxRecords) :
        \A i, j \in DOMAIN d : d[i].message = d[j].message => i = j}

\* collections that vary the sentiment column only
CountData ==
    SeqsUpTo({Record(s, MsgWind) : s \in Sentiments}, MaxCount)

\* one record whose message is any stripped text over the alphabet
CharData ==
    {<<Record(1, m)>> : m \in {x \in SeqsUpTo(Alphabet, MaxMsgLen) : IsStripped(x)}}

----------------------------------------------------------------------------
(* pandas Series, as sequences of [key, val] entries in the Series' order *)

Min(a, b) == IF a <= b THEN a ELSE b

\* self.data[name]: the values of one column, in row order
Column(d, name) == Seq1([i \in DOMAIN d |-> d[i][name]])

\* the distinct values of vals that are not in na, in the order of their
\* first appearance
Unique(vals, na) ==
    At(vals, {i \in DOMAIN vals :
                 /\ vals[i] \notin na
                 /\ \A j \in 1..(i - 1) : vals[j] # vals[i]})

\* the number of positions of vals that hold v
CountOf(vals, v) == Cardinality({i \in DOMAIN vals : vals[i] = v})

\* the position of the first entry that holds the largest val
\* (numpy argmax) of a non-empty Series
ArgMax(series) ==
    CHOOSE i \in DOMAIN series :
        /\ \A j \in DOMAIN series : series[j].val <= series[i].val
        /\ \A j \in 1..(i - 1) : series[j].val < series[i].val

\* mutant of BeforeByVal: of two entries of equal val the later comes first
BeforeByValLatestFirst(series, j, i) ==
    \/ series[j].val > series[i].val
    \/ series[j].val = series[i].val /\ j > i

\* entry j comes before entry i in a stable sort by descending val
BeforeByVal(series, j, i) ==
    \/ series[j].val > series[i].val
    \/ series[j].val = series[i].val /\ j < i

\* stable sort by descending val: entries of equal val keep their order
SortByValDesc(series) ==
    With(Seq1([i \in DOMAIN series |->
                 Cardinality({j \in DOMAIN series : BeforeByVal(series, j, i)})]),
         LAMBDA rank :
            Seq1([k \in DOMAIN series |->
                    series[CHOOSE i \in DOMAIN series : rank[i] = k - 1]]))

\* Series.value_counts(): one entry per distinct value that is not missing
\* (na: the missing values of the column's type), by descending count,
\* equal counts in the order of first appearance
value_counts(vals, na) ==
    With(Unique(vals, na), LAMBDA keys :
        SortByValDesc(Seq1([i \in DOMAIN keys |->
            [key |-> keys[i], val |-> CountOf(vals, keys[i])]])))

\* mutant of sort_index: the Series is left in the order of value_counts
sort_index_skipped(series) == series

\* Series.sort_index(): entries by ascending key (the keys are distinct)
sort_index(series) ==
    Seq1([k \in DOMAIN series |->
            series[CHOOSE i \in DOMAIN series :
                      Cardinality({j \in DOMAIN series :
                                      series[j].key < series[i].key}) = k - 1]])

Keys(series) == {series[i].key : i \in DOMAIN series}

\* Series.get(key, default)
Get(series, k, default) ==
    IF k \in Keys(series)
    THEN series[CHOOSE i \in DOMAIN series : series[i].key = k].val
    ELSE default

\* round(num / den) with ties to the even integer (numpy's rounding),
\* for num >= 0 and den > 0
RoundHalfEven(num, den) ==
    LET q == num \div den
        r == num % den
    IN  IF 2 * r < den THEN q
        ELSE IF 2 * r > den THEN q + 1
        ELSE IF q % 2 = 0 THEN q ELSE q + 1

\* mutant of Percentage: rounded to a whole number of percent
PercentageWhole(count, total) == RoundHalfEven(count * 100, total) * 100

\* (count / total * 100).round(2), in hundredths of a percent
Percentage(count, total) == RoundHalfEven(count * 10000, total)

----------------------------------------------------------------------------
(* Outcomes of a call *)

\* no call is in progress and no outcome is waiting for the caller
None == [op |-> "none", kind |-> "none"]

Return(v) == [kind |-> "return", value |-> v]
Raise(e) == [kind |-> "raise", error |-> e]

\* the call op(args) has ended with the outcome
Called(op, args, outcome) ==
    [op |-> op, args |-> args, kind |-> outcome.kind, out |-> outcome]

\* self.logger.info(msg) and self.logger.error(f"{msg}: {e}")
Info(msg) == [level |-> "info", msg |-> msg]
Error(msg, e) == [level |-> "error", msg |-> msg, error |-> e]

\* the message a method logs when it starts
StartMsg(op) ==
    CASE op = "analyze_sentiment_distribution" -> "Analyzing sentiment distribution"
      [] op = "identify_key_themes" -> "Identifying key themes in tweets"
      [] op = "analyze_text_patterns" -> "Analyzing text patterns"
      [] op = "perform_advanced_sentiment_analysis" ->
             "Performing advanced sentiment analysis"
      [] op = "generate_insights_report" ->
             "Generating comprehensive insights report"

\* the message a method logs before it returns
DoneMsg(op) ==
    CASE op = "analyze_sentiment_distribution" ->
             "Sentiment distribution analysis completed"
      [] op = "identify_key_themes" -> "Theme identification completed"
      [] op = "analyze_text_patterns" -> "Text pattern analysis completed"
      [] op = "perform_advanced_sentiment_analysis" ->
             "Advanced sentiment analysis completed"
      [] op = "generate_insights_report" ->
             "Insights report generated successfully"

\* the message a method's except clause logs with the exception
ErrorMsg(op) ==
    CASE op = "analyze_sentiment_distribution" ->
             "Error analyzing sentiment distribution"
      [] op = "identify_key_themes" -> "Error identifying themes"
      [] op = "analyze_text_patterns" -> "Error analyzing text patterns"
      [] op = "perform_advanced_sentiment_analysis" ->
             "Error in advanced sentiment analysis"
      [] op = "generate_insights_report" -> "Error generating insights report"

\* try: log the start, run the body, log the end and return;
\* except Exception as e: log the error and raise e again.
\* The events of a method whose body logs inner and ends with the outcome
TryLog(op, inner, outcome) ==
    <<Info(StartMsg(op))>> \o inner
        \o <<IF outcome.kind = "raise"
              THEN Error(ErrorMsg(op), outcome.error)
              ELSE Info(DoneMsg(op))>>

\* ValueError: attempt to get argmax of an empty sequence
EmptyArgmax == [type |-> "ValueError", raised_by |-> "idxmax"]

\* mutant of idxmax: gives NaN for an empty Series instead of raising
idxmax_or_nan(series) ==
    IF series = <<>> THEN Return(NaN)
    ELSE Return(series[ArgMax(series)].key)

\* Series.idxmax(): the key of the first entry that holds the largest val;
\* a ValueError for an empty Series
idxmax(series) ==
    IF series = <<>> THEN Raise(EmptyArgmax)
    ELSE Return(series[ArgMax(series)].key)

----------------------------------------------------------------------------
(* SentimentAnalyzer.analyze_sentiment_distribution *)

\* mutant of sentiment_balance: the news class is not counted as pro-climate
sentiment_balance_pro_only(sentiment_counts) ==
    [pro_climate |-> Get(sentiment_counts, 1, 0),
     anti_climate |-> Get(sentiment_counts, -1, 0),
     neutral |-> Get(sentiment_counts, 0, 0)]

\* the 'sentiment_balance' entry of the result
sentiment_balance(sentiment_counts) ==
    [pro_climate |-> Get(sentiment_counts, 1, 0) + Get(sentiment_counts, 2, 0),
     anti_climate |-> Get(sentiment_counts, -1, 0),
     neutral |-> Get(sentiment_counts, 0, 0)]

\* the result of analyze_sentiment_distribution, given the two Series of
\* lines 40-41
Distribution(d, sentiment_counts, sentiment_label_counts) ==
    LET total_tweets == Len(d)
        sentiment_percentages ==
            Seq1([i \in DOMAIN sentiment_counts |->
                [key |-> sentiment_counts[i].key,
                 val |-> Percentage(sentiment_counts[i].val, total_tweets)]])
        dominant_sentiment == idxmax(sentiment_counts)
        dominant_sentiment_label == idxmax(sentiment_label_counts)
    IN  IF dominant_sentiment.kind = "raise" THEN dominant_sentiment
        ELSE IF dominant_sentiment_label.kind = "raise"
        THEN dominant_sentiment_label
        ELSE Return(
          [total_tweets |-> total_tweets,
           sentiment_counts |-> sentiment_counts,
           sentiment_label_counts |-> sentiment_label_counts,
           sentiment_percentages |-> sentiment_percentages,
           dominant_sentiment |-> dominant_sentiment.value,
           dominant_sentiment_label |-> dominant_sentiment_label.value,
           sentiment_balance |-> sentiment_balance(sentiment_counts)])

analyze_sentiment_distribution(d) ==
    With(sort_index(value_counts(Column(d, "sentiment"), {})),
         LAMBDA sentiment_counts :
            With(value_counts(Column(d, "sentiment_label"), {NaN}),
                 LAMBDA sentiment_label_counts :
                    Distribution(d, sentiment_counts, sentiment_label_counts)))

AnalyzeSentimentDistribution ==
    /\ ret = None
    /\ \E outcome \in {analyze_sentiment_distribution(data)} :
          /\ ret' = Called("analyze_sentiment_distribution", <<>>, outcome)
          /\ log' = TryLog("analyze_sentiment_distribution", <<>>, outcome)
    /\ UNCHANGED <<data, sampler, earlier, app>>

----------------------------------------------------------------------------
(* SentimentAnalyzer.identify_key_themes *)

stop_words ==
    {"the", "a", "an", "and", "or", "but", "in", "on", "at", "to", "for",
     "of", "with", "by", "is", "are", "was", "were", "be", "been", "have",
     "has", "had", "do", "does", "did", "will", "would", "could", "should",
     "may", "might", "can", "this", "that", "these", "those", "i", "you",
     "he", "she", "it", "we", "they", "me", "him", "her", "us", "them",
     "my", "your", "his", "its", "our", "their", "mine", "yours", "hers",
     "ours", "theirs", "rt", "via", "http", "https", "com", "www", "co",
     "amp"}

climate_keywords ==
    {"climate", "change", "global", "warming", "emission", "carbon",
     "temperature", "weather", "environment", "greenhouse", "pollution",
     "renewable", "energy", "solar", "wind", "fossil", "fuel",
     "sustainability", "eco", "green", "earth", "planet", "ocean", "ice",
     "melting", "sea", "level", "drought", "flood", "storm"}

DefaultTopN == 20
ClassTopN == 10

RECURSIVE JoinSpace(_)
\* ' '.join(texts)
JoinSpace(texts) ==
    IF texts = <<>> THEN <<>>
    ELSE IF Len(texts) = 1 THEN Head(texts)
    ELSE Head(texts) \o <<" ">> \o JoinSpace(Tail(texts))

\* the character re.sub(r'[^\w\s]', ' ', ...) leaves in the place of c
SubNonWord(c) == IF IsWordChar(c) \/ IsSpaceChar(c) THEN c ELSE " "

\* re.sub(r'[^\w\s]', ' ', text.lower())
CleanText(text) == Seq1([i \in DOMAIN text |-> SubNonWord(LowerChar(text[i]))])

\* a longer minimum length
KeepWordOverFour(word) == Len(word) > 4 /\ Str(word) \notin stop_words

\* len(word) > 2 and word not in stop_words
KeepWord(word) == Len(word) > 2 /\ Str(word) \notin stop_words

\* the filtered words of a text, in order
FilteredWords(text) == SelectSeq(Split(CleanText(text)), KeepWord)

\* collections.Counter(words): one entry per distinct word, in the order the
\* words were first counted
Counter(words) ==
    With(words, LAMBDA ws :
        With(Unique(ws, {}), LAMBDA keys :
            Seq1([i \in DOMAIN keys |->
                    [key |-> keys[i], val |-> CountOf(ws, keys[i])]])))

\* Counter.most_common(n)
most_common(counter, n) ==
    SubSeq(SortByValDesc(counter), 1, Min(n, Len(counter)))

\* the filter dropped: every row, whatever its sentiment
RowsOfAnySentiment(d, sentiment) == d

\* self.data[self.data['sentiment'] == sentiment]
RowsOf(d, sentiment) ==
    LET HasSentiment(r) == r.sentiment = sentiment
    IN  SelectSeq(d, HasSentiment)

\* the word is a keyword itself
IsClimateKeyword(word) == Str(word) \in climate_keywords

\* any(keyword in word for keyword in self.climate_keywords)
IsClimateWord(word) ==
    \E i \in 1..Len(word) : \E j \in i..Len(word) :
        Str(SubSeq(word, i, j)) \in climate_keywords

\* the result of identify_key_themes, given the Counter of line 88
Themes(d, top_n, word_counts) ==
        Return(
          [top_themes |-> most_common(word_counts, top_n),
           total_unique_words |-> Len(word_counts),
           theme_by_sentiment |->
               [sentiment \in ContractCodes |->
                   most_common(
                       Counter(FilteredWords(
                           JoinSpace(Column(RowsOf(d, sentiment), "message")))),
                       ClassTopN)],
           climate_related_words |->
               LET IsClimateEntry(e) == IsClimateWord(e.key)
               IN  SelectSeq(word_counts, IsClimateEntry)])

identify_key_themes(d, top_n) ==
    With(Counter(FilteredWords(JoinSpace(Column(d, "message")))),
         LAMBDA word_counts : Themes(d, top_n, word_counts))

\* the values of top_n the model calls identify_key_themes with
TopNs == {0, 2, DefaultTopN}

IdentifyKeyThemes ==
    /\ ret = None
    /\ \E top_n \in TopNs :
          \E outcome \in {identify_key_themes(data, top_n)} :
            /\ ret' = Called("identify_key_themes", [top_n |-> top_n], outcome)
            /\ log' = TryLog("identify_key_themes", <<>>, outcome)
    /\ UNCHANGED <<data, sampler, earlier, app>>

----------------------------------------------------------------------------
(* Statistics.  A float is kept as the exact fraction [num, den]; a        *)
(* standard deviation is kept as its square.                               *)

RECURSIVE SumRange(_, _, _)
\* vals[lo] + ... + vals[hi]
SumRange(vals, lo, hi) ==
    IF lo > hi THEN 0
    ELSE IF lo = hi THEN vals[lo]
    ELSE SumRange(vals, lo, (lo + hi) \div 2)
             + SumRange(vals, (lo + hi) \div 2 + 1, hi)

Sum(vals) == SumRange(vals, 1, Len(vals))

Frac(n, d) == [num |-> n, den |-> d]

\* the float NaN: the fraction 0 / 0
nan == Frac(0, 0)

\* mean of the values; NaN when there is none
Mean(vals) == IF vals = <<>> THEN nan ELSE Frac(Sum(vals), Len(vals))

\* the k-th value in ascending order
KthSmallest(vals, k) ==
    CHOOSE v \in {vals[i] : i \in DOMAIN vals} :
        /\ Cardinality({i \in DOMAIN vals : vals[i] < v}) < k
        /\ Cardinality({i \in DOMAIN vals : vals[i] <= v}) >= k

\* median of the values; NaN when there is none
Median(vals) ==
    LET n == Len(vals)
    IN  IF n = 0 THEN nan
        ELSE IF n % 2 = 1 THEN Frac(KthSmallest(vals, (n + 1) \div 2), 1)
        ELSE Frac(KthSmallest(vals, n \div 2)
                      + KthSmallest(vals, n \div 2 + 1), 2)

\* the variance with divisor n - ddof; NaN when the divisor is not positive
Variance(vals, ddof) ==
    LET n == Len(vals)
    IN  IF n - ddof <= 0 THEN nan
        ELSE Frac(n * Sum([i \in DOMAIN vals |-> vals[i] * vals[i]])
                      - Sum(vals) * Sum(vals),
                  n * (n - ddof))

\* smallest and largest of a non-empty sequence of values
MinOf(vals) == CHOOSE m \in {vals[i] : i \in DOMAIN vals} :
                   \A i \in DOMAIN vals : m <= vals[i]
MaxOf(vals) == CHOOSE m \in {vals[i] : i \in DOMAIN vals} :
                   \A i \in DOMAIN vals : m >= vals[i]

\* Series.min() and Series.max(): NaN for an empty Series
SeriesMin(vals) == IF vals = <<>> THEN NaN ELSE MinOf(vals)
SeriesMax(vals) == IF vals = <<>> THEN NaN ELSE MaxOf(vals)

----------------------------------------------------------------------------
(* SentimentAnalyzer.analyze_text_patterns *)

\* pattern occurs in text, compared without case (str.contains, case=False)
Contains(text, pattern) ==
    \E i \in 1..(Len(text) - Len(pattern) + 1) :
        \A k \in DOMAIN pattern :
            LowerChar(text[i + k - 1]) = LowerChar(pattern[k])

\* the number of records whose message contains the pattern
CountContaining(d, pattern) ==
    Cardinality({i \in DOMAIN d : Contains(d[i].message, pattern)})

analyze_text_patterns(d) ==
    LET lengths == Column(d, "text_length")
        words == Column(d, "word_count")
    IN  Return(
          [text_length_stats |->
               [mean_length |-> Mean(lengths),
                median_length |-> Median(lengths),
                min_length |-> SeriesMin(lengths),
                max_length |-> SeriesMax(lengths),
                std_length |-> Variance(lengths, 1)],
           word_count_stats |->
               [mean_words |-> Mean(words),
                median_words |-> Median(words),
                min_words |-> SeriesMin(words),
                max_words |-> SeriesMax(words),
                std_words |-> Variance(words, 1)],
           patterns_by_sentiment |->
               [sentiment \in ContractCodes |->
                   [avg_length |-> Mean(Column(RowsOf(d, sentiment), "text_length")),
                    avg_words |-> Mean(Column(RowsOf(d, sentiment), "word_count")),
                    count |-> Len(RowsOf(d, sentiment))]],
           common_patterns |->
               [retweets |-> CountContaining(d, <<"R", "T", " ", "@">>),
                mentions |-> CountContaining(d, <<"@">>),
                hashtags |-> CountContaining(d, <<"#">>),
                urls |-> CountContaining(d, <<"h", "t", "t", "p">>)]])

AnalyzeTextPatterns ==
    /\ ret = None
    /\ \E outcome \in {analyze_text_patterns(data)} :
          /\ ret' = Called("analyze_text_patterns", <<>>, outcome)
          /\ log' = TryLog("analyze_text_patterns", <<>>, outcome)
    /\ UNCHANGED <<data, sampler, earlier, app>>

----------------------------------------------------------------------------
(* SentimentAnalyzer.perform_advanced_sentiment_analysis *)

SampleCap == 5000

random_state == 42

\* a generator that is not seeded anew at each call: the rows depend on
\* whether a call was made before
SampleOrderUnseeded(seed, n, k) ==
    [i \in 1..k |-> n - ((i - 1 + (IF earlier = None THEN 0 ELSE 1)) % n)]

\* the rows that DataFrame.sample(n=k, random_state=seed) returns of a frame
\* of n rows: k distinct positions, in an order that the seed, n and k fix
\* and that is not the rows' own order
SampleOrder(seed, n, k) == [i \in 1..k |-> n - ((i - 1 + seed) % n)]

\* what TextBlob(text).sentiment can give for one text: a failure, or a
\* polarity and a subjectivity (in tenths)
ScoreFailed == [ok |-> FALSE]
Scored(p, s) == [ok |-> TRUE, polarity |-> p, subjectivity |-> s]
ScoreOutcomes == {ScoreFailed, Scored(5, 8)}

\* the scorers: a scorer gives the same outcome for the same text
Scorers(d) == [{d[i].message : i \in DOMAIN d} -> ScoreOutcomes]

\* ValueError: zero-size array to reduction operation minimum
EmptyReduction == [type |-> "ValueError", raised_by |-> "np.min"]

\* the whole collection, whatever its size
sample_size_uncapped(d) == Len(d)

\* min(5000, len(self.data))
sample_size(d) == Min(SampleCap, Len(d))

\* an except clause that adds nothing: the message is left out of both lists
SampleAndScoreLeaveOut(d, scorer) ==
    With(Seq1(SampleOrder(random_state, Len(d), sample_size(d))),
         LAMBDA sample_data :
            With(SelectSeq(Seq1([i \in DOMAIN sample_data |->
                                    scorer[d[sample_data[i]].message]]),
                           LAMBDA b : b.ok),
                 LAMBDA blob :
                    [sample_size |-> Len(sample_data),
                     sample_data |-> sample_data,
                     textblob_sentiments |->
                         Seq1([i \in DOMAIN blob |-> blob[i].polarity]),
                     textblob_subjectivities |->
                         Seq1([i \in DOMAIN blob |-> blob[i].subjectivity])]))

\* lines 179-193: the sample and the two score lists; a message whose
\* scoring fails adds 0 to both lists
SampleAndScore(d, scorer) ==
    With(Seq1(SampleOrder(random_state, Len(d), sample_size(d))),
         LAMBDA sample_data :
            With(Seq1([i \in DOMAIN sample_data |->
                          scorer[d[sample_data[i]].message]]),
                 LAMBDA blob :
                    [sample_size |-> Len(sample_data),
                     sample_data |-> sample_data,
                     textblob_sentiments |->
                         Seq1([i \in DOMAIN blob |->
                                 IF blob[i].ok THEN blob[i].polarity ELSE 0]),
                     textblob_subjectivities |->
                         Seq1([i \in DOMAIN blob |->
                                 IF blob[i].ok THEN blob[i].subjectivity
                                 ELSE 0])]))

\* np.mean, np.median, np.std, np.min and np.max of a non-empty list
Describe(vals) ==
    [mean |-> Mean(vals), median |-> Median(vals), std |-> Variance(vals, 0),
     min |-> MinOf(vals), max |-> MaxOf(vals)]

\* lines 196-212: the statistics of the two lists
Aggregate(local) ==
    IF local.textblob_sentiments = <<>>
    THEN Raise(EmptyReduction)
    ELSE Return(
           [textblob_polarity |-> Describe(local.textblob_sentiments),
            textblob_subjectivity |-> Describe(local.textblob_subjectivities),
            sample_size |-> local.sample_size])

perform_advanced_sentiment_analysis(d, scorer) ==
    With(SampleAndScore(d, scorer), LAMBDA local : Aggregate(local))

\* mutant of PerformAdvancedSentimentAnalysis: the sample replaces the
\* records the analyzer holds
PerformAdvancedSentimentAnalysisInPlace ==
    /\ ret = None
    /\ \E scorer \in Scorers(data) :
          \E local \in {SampleAndScore(data, scorer)} :
            \E outcome \in {Aggregate(local)} :
              /\ ret' = Called("perform_advanced_sentiment_analysis",
                               [scorer |-> scorer], outcome)
              /\ log' = TryLog("perform_advanced_sentiment_analysis", <<>>,
                               outcome)
              /\ sampler' = local
              /\ data' = Seq1([i \in DOMAIN local.sample_data |->
                                  data[local.sample_data[i]]])
    /\ UNCHANGED <<earlier, app>>

\* the except clause of lines 191-193 sends nothing to the logger: the call
\* logs its start and its end (or its error) only
PerformAdvancedSentimentAnalysis ==
    /\ ret = None
    /\ \E scorer \in Scorers(data) :
          \E local \in {SampleAndScore(data, scorer)} :
            \E outcome \in {Aggregate(local)} :
              /\ ret' = Called("perform_advanced_sentiment_analysis",
                               [scorer |-> scorer], outcome)
              /\ log' = TryLog("perform_advanced_sentiment_analysis", <<>>,
                               outcome)
              /\ sampler' = local
    /\ UNCHANGED <<data, earlier, app>>

----------------------------------------------------------------------------
(* SentimentAnalyzer._generate_recommendations *)

AntiMessage ==
    "High anti-climate change sentiment detected. Consider targeted educational campaigns."
NeutralMessage ==
    "High neutral sentiment suggests need for more engaging climate change content."
ProMessage ==
    "Pro-climate change sentiment is dominant. Leverage this for broader engagement."
LimitedMessage ==
    "Limited climate-specific terminology. Consider expanding climate change vocabulary."

MinClimateWords == 10

RECURSIVE JoinComma(_)
\* ', '.join(strings)
JoinComma(strings) ==
    IF strings = <<>> THEN ""
    ELSE IF Len(strings) = 1 THEN Head(strings)
    ELSE Head(strings) \o ", " \o JoinComma(Tail(strings))

\* seq[:n]
Prefix(seq, n) == SubSeq(seq, 1, Min(n, Len(seq)))

\* f"Focus on key themes: {', '.join(top_themes[:5])}"
FocusMessage(top_themes) ==
    "Focus on key themes: " \o JoinComma(Prefix(top_themes, 5))

\* mutant of _generate_recommendations: the first guard is not strict
_generate_recommendations_ge(sentiment_distribution, key_themes) ==
    LET pro_count == sentiment_distribution.sentiment_balance.pro_climate
        anti_count == sentiment_distribution.sentiment_balance.anti_climate
        neutral_count == sentiment_distribution.sentiment_balance.neutral
        themes == Prefix(key_themes.top_themes, 10)
        top_themes == [i \in DOMAIN themes |-> Str(themes[i].key)]
        climate_words == key_themes.climate_related_words
    IN  (IF anti_count >= pro_count THEN <<AntiMessage>> ELSE <<>>)
        \o (IF neutral_count > (pro_count + anti_count)
            THEN <<NeutralMessage>> ELSE <<>>)
        \o (IF pro_count > anti_count THEN <<ProMessage>> ELSE <<>>)
        \o (IF Len(climate_words) < MinClimateWords
            THEN <<LimitedMessage>> ELSE <<>>)
        \o <<FocusMessage(top_themes)>>

\* mutant of _generate_recommendations: the terminology rule is evaluated
\* before the pro-climate rule
_generate_recommendations_reordered(sentiment_distribution, key_themes) ==
    LET pro_count == sentiment_distribution.sentiment_balance.pro_climate
        anti_count == sentiment_distribution.sentiment_balance.anti_climate
        neutral_count == sentiment_distribution.sentiment_balance.neutral
        themes == Prefix(key_themes.top_themes, 10)
        top_themes == [i \in DOMAIN themes |-> Str(themes[i].key)]
        climate_words == key_themes.climate_related_words
    IN  (IF anti_count > pro_count THEN <<AntiMessage>> ELSE <<>>)
        \o (IF neutral_count > (pro_count + anti_count)
            THEN <<NeutralMessage>> ELSE <<>>)
        \o (IF Len(climate_words) < MinClimateWords
            THEN <<LimitedMessage>> ELSE <<>>)
        \o (IF pro_count > anti_count THEN <<ProMessage>> ELSE <<>>)
        \o <<FocusMessage(top_themes)>>

_generate_recommendations(sentiment_distribution, key_themes) ==
    LET pro_count == sentiment_distribution.sentiment_balance.pro_climate
        anti_count == sentiment_distribution.sentiment_balance.anti_climate
        neutral_count == sentiment_distribution.sentiment_balance.neutral
        themes == Prefix(key_themes.top_themes, 10)
        top_themes == [i \in DOMAIN themes |-> Str(themes[i].key)]
        climate_words == key_themes.climate_related_words
    IN  (IF anti_count > pro_count THEN <<AntiMessage>> ELSE <<>>)
        \o (IF neutral_count > (pro_count + anti_count)
            THEN <<NeutralMessage>> ELSE <<>>)
        \o (IF pro_count > anti_count THEN <<ProMessage>> ELSE <<>>)
        \o (IF Len(climate_words) < MinClimateWords
            THEN <<LimitedMessage>> ELSE <<>>)
        \o <<FocusMessage(top_themes)>>

----------------------------------------------------------------------------
(* SentimentAnalyzer.generate_insights_report *)

\* the calls generate_insights_report makes, in order
Steps == <<"analyze_sentiment_distribution", "identify_key_themes",
           "analyze_text_patterns", "perform_advanced_sentiment_analysis",
           "_generate_recommendations">>

NoFault == "none"

\* an exception raised inside a step by its environment (for instance a
\* MemoryError)
Unexpected(step) == [type |-> "RuntimeError", raised_by |-> step]

\* the outcome of a step: the fault when its environment fails in this
\* step, else what the step computes
Step(name, fault, outcome) ==
    IF fault = name THEN Raise(Unexpected(name)) ELSE outcome

\* round(mean, 1), in tenths (exact for fewer than 20 records)
RoundTenths(mean) == RoundHalfEven(mean.num * 10, mean.den)

\* mutant of most_common_themes: the list is not cut to five entries
most_common_themes_all(key_themes) == key_themes.top_themes

\* key_themes['top_themes'][:5]
most_common_themes(key_themes) == Prefix(key_themes.top_themes, 5)

\* the dictionary 'insights' of generate_insights_report
Insights(sentiment_distribution, key_themes, text_patterns, advanced, recs) ==
    [dataset_overview |->
         [total_tweets |-> sentiment_distribution.total_tweets,
          date_range |-> "Apr 27, 2015 - Feb 21, 2018",
          topic |-> "Climate Change"],
     key_findings |->
         [dominant_sentiment |-> sentiment_distribution.dominant_sentiment_label,
          sentiment_balance |-> sentiment_distribution.sentiment_balance,
          most_common_themes |-> most_common_themes(key_themes),
          average_tweet_length |->
              RoundTenths(text_patterns.text_length_stats.mean_length)],
     detailed_analysis |->
         [sentiment_distribution |-> sentiment_distribution,
          theme_analysis |-> key_themes,
          text_patterns |-> text_patterns,
          advanced_sentiment |-> advanced],
     recommendations |-> recs]

\* mutant of InsightsReport: a failure is reported as a new error
InsightsReportWrapsError(sd, kt, tp, aa, rc) ==
    IF \/ sd.kind = "raise" \/ kt.kind = "raise" \/ tp.kind = "raise"
       \/ aa.kind = "raise" \/ rc.kind = "raise"
    THEN Raise([type |-> "RuntimeError",
                raised_by |-> "generate_insights_report"])
    ELSE Return(Insights(sd.value, kt.value, tp.value, aa.value, rc.value))

\* the outcome of the try body of generate_insights_report, given the
\* outcomes of the five calls it makes (a call after one that raises is not
\* made)
InsightsReport(sd, kt, tp, aa, rc) ==
    IF sd.kind = "raise" THEN sd
    ELSE IF kt.kind = "raise" THEN kt
    ELSE IF tp.kind = "raise" THEN tp
    ELSE IF aa.kind = "raise" THEN aa
    ELSE IF rc.kind = "raise" THEN rc
    ELSE Return(Insights(sd.value, kt.value, tp.value, aa.value, rc.value))


\* the events the four analyses log inside generate_insights_report: each
\* analysis that is called logs its own start and its own end or error
\* (_generate_recommendations logs nothing)
StepsLog(sd, kt, tp, aa) ==
    TryLog(Steps[1], <<>>, sd)
    \o (IF sd.kind = "raise" THEN <<>> ELSE
        TryLog(Steps[2], <<>>, kt)
        \o (IF kt.kind = "raise" THEN <<>> ELSE
            TryLog(Steps[3], <<>>, tp)
            \o (IF tp.kind = "raise" THEN <<>> ELSE
                TryLog(Steps[4], <<>>, aa))))

\* generate_insights_report, given what the four analyses compute on
\* self.data (dist, themes, patterns, advanced) and the step whose
\* environment fails: the outcome and the events logged
generate_insights_report(dist, themes, patterns, advanced, fault) ==
    LET sd == Step(Steps[1], fault, dist)
        kt == Step(Steps[2], fault, themes)
        tp == Step(Steps[3], fault, patterns)
        aa == Step(Steps[4], fault, advanced)
        rc == Step(Steps[5], fault,
                   Return(_generate_recommendations(sd.value, kt.value)))
    IN  With(InsightsReport(sd, kt, tp, aa, rc), LAMBDA outcome :
            [outcome |-> outcome,
             log |-> TryLog("generate_insights_report",
                            StepsLog(sd, kt, tp, aa), outcome)])

Faults == {NoFault} \cup {Steps[i] : i \in DOMAIN Steps}

\* the faults under which no polarity score reaches the report
EarlyFaults == {Steps[1], Steps[2], Steps[3], Steps[4]}

\* no text is scored when the call stops before the fourth step
NoScorer == <<>>
NotCalled == [kind |-> "not called"]

GenerateInsightsReport ==
    /\ ret = None
    /\ \E dist \in {analyze_sentiment_distribution(data)},
          themes \in {identify_key_themes(data, DefaultTopN)},
          patterns \in {analyze_text_patterns(data)} :
          \E fault \in Faults :
           \E early \in {(fault \in EarlyFaults) \/ (dist.kind = "raise")} :
            \E scorer \in IF early THEN {NoScorer} ELSE Scorers(data) :
              \E advanced \in
                    {IF early THEN NotCalled
                     ELSE perform_advanced_sentiment_analysis(data, scorer)} :
                \E report \in {generate_insights_report(dist, themes, patterns,
                                                       advanced, fault)} :
                  /\ ret' = Called("generate_insights_report",
                                  [scorer |-> scorer, fault |-> fault],
                                  report.outcome)
                  /\ log' = report.log
    /\ UNCHANGED <<data, sampler, earlier, app>>

----------------------------------------------------------------------------
(* The analyzer and its caller *)

Init ==
    /\ data \in CorpusData \cup CountData \cup CharData
    /\ ret = None
    /\ log = <<>>
    /\ sampler = None
    /\ earlier = None
    /\ app = None

\* the caller takes the outcome of the call; the analyzer is idle again
Resume ==
    /\ ret # None
    /\ ret' = None
    /\ log' = <<>>
    /\ sampler' = None
    /\ UNCHANGED <<data, earlier, app>>

Next ==
    \/ AnalyzeSentimentDistribution
    \/ IdentifyKeyThemes
    \/ AnalyzeTextPatterns
    \/ PerformAdvancedSentimentAnalysis
    \/ GenerateInsightsReport
    \/ Resume

Spec == Init /\ [][Next]_vars

----------------------------------------------------------------------------
(* The polarity sampler called again and again on one collection, by a     *)
(* caller that keeps what the call before gave                             *)

\* collections of SampleCap rows and of one more, of two messages in turn
BigData ==
    {Seq1([i \in 1..n |-> IF i % 2 = 1 THEN odd ELSE even]) :
        n \in {SampleCap, SampleCap + 1},
        odd \in {Record(1, MsgWind)}, even \in {Record(-1, MsgFake)}}

SamplerInit ==
    /\ data \in CorpusData \cup BigData
    /\ ret = None
    /\ log = <<>>
    /\ sampler = None
    /\ earlier = None
    /\ app = None

\* the caller takes the outcome of the call and keeps it, with the sample
\* and the score lists, to compare the next call with
Remember ==
    /\ ret # None
    /\ earlier' = [scorer |-> ret.args.scorer, kind |-> ret.kind,
                   out |-> ret.out, sampler |-> sampler]
    /\ ret' = None
    /\ log' = <<>>
    /\ sampler' = None
    /\ UNCHANGED <<data, app>>

SamplerNext ==
    \/ PerformAdvancedSentimentAnalysis
    \/ Remember

SamplerSpec == SamplerInit /\ [][SamplerNext]_vars

----------------------------------------------------------------------------
(* DataLoader (src/data_loader.py).  A frame is its column names and its   *)
(* rows; a row holds one value per column, in the order of the columns.    *)

\* the positions of text that hold no whitespace
Inked(text) == {i \in DOMAIN text : ~IsSpaceChar(text[i])}

\* str.strip()
strip(text) ==
    IF Inked(text) = {} THEN <<>>
    ELSE SubSeq(text,
                CHOOSE i \in Inked(text) : \A j \in Inked(text) : i <= j,
                CHOOSE i \in Inked(text) : \A j \in Inked(text) : i >= j)

\* str.lower()
lower(text) == Seq1([i \in DOMAIN text |-> LowerChar(text[i])])

\* the column names the program uses
ColTweetid == <<"t","w","e","e","t","i","d">>
ColSentiment == <<"s","e","n","t","i","m","e","n","t">>
ColMessage == <<"m","e","s","s","a","g","e">>

\* frame has a column of that name
HasColumn(frame, name) == \E c \in DOMAIN frame.columns : frame.columns[c] = name

\* row[name]: the value of a row in the first column of that name
Cell(frame, row, name) ==
    row[CHOOSE c \in DOMAIN frame.columns :
            /\ frame.columns[c] = name
            /\ \A b \in 1..(c - 1) : frame.columns[b] # name]

\* a cell of the file that holds no value (read as NaN)
Missing == <<"N","a","N">>

\* astype(str) of a message cell: the text, or 'nan' for a missing value
astype_str(value) == IF value = Missing THEN <<"n","a","n">> ELSE value

KeyError(name) == [type |-> "KeyError", key |-> name]
FileNotFoundError == [type |-> "FileNotFoundError"]
EmptyDataError == [type |-> "EmptyDataError"]

\* DataLoader.load_data: the frame pd.read_csv gives for the file
load_data(file) ==
    IF ~file.found THEN Raise(FileNotFoundError)
    ELSE IF file.frame.rows = <<>> THEN Raise(EmptyDataError)
    ELSE Return(file.frame)

\* 'Positive' if x > 0 else 'Negative' if x < 0 else 'Neutral'
binary_sentiment(x) ==
    IF x > 0 THEN "Positive" ELSE IF x < 0 THEN "Negative" ELSE "Neutral"

\* lines 64-96 on a frame whose column names are cleaned already
Preprocessed(frame) ==
    LET tweetid(i) == Cell(frame, frame.rows[i], ColTweetid)
        kept == {i \in DOMAIN frame.rows :
                    /\ \A j \in 1..(i - 1) : tweetid(j) # tweetid(i)
                    /\ strip(astype_str(
                           Cell(frame, frame.rows[i], ColMessage))) # <<>>}
        rows == At(frame.rows, kept)
    IN  Seq1([i \in DOMAIN rows |->
                Record(Cell(frame, rows[i], ColSentiment),
                       strip(astype_str(Cell(frame, rows[i], ColMessage))))
                @@ [tweetid |-> Cell(frame, rows[i], ColTweetid),
                    binary_sentiment |->
                        binary_sentiment(Cell(frame, rows[i], ColSentiment))]])

\* DataLoader.preprocess_data on the loader's frame
preprocess_data(loaded) ==
    With([columns |-> Seq1([c \in DOMAIN loaded.columns |->
                               lower(strip(loaded.columns[c]))]),
          rows |-> loaded.rows],
         LAMBDA frame :
            IF ~HasColumn(frame, ColTweetid) THEN Raise(KeyError("tweetid"))
            ELSE IF ~HasColumn(frame, ColMessage) THEN Raise(KeyError("message"))
            ELSE IF ~HasColumn(frame, ColSentiment)
                 THEN Raise(KeyError("sentiment"))
            ELSE Return(Preprocessed(frame)))

\* DataLoader.get_data_summary on the loader's frame, which is the frame as
\* it was read: preprocess_data works on a copy
get_data_summary(loaded) ==
    IF ~HasColumn(loaded, ColSentiment) THEN Raise(KeyError("sentiment"))
    ELSE Return(
           [total_tweets |-> Len(loaded.rows),
            sentiment_distribution |->
                value_counts(Seq1([i \in DOMAIN loaded.rows |->
                                     Cell(loaded, loaded.rows[i], ColSentiment)]),
                             {})])

----------------------------------------------------------------------------
(* The CSV files the application is run on *)

\* the header line 'sentiment,message,tweetid' of the data set
Header == <<ColSentiment, ColMessage, ColTweetid>>

\* the header with a capital: 'Sentiment,message,tweetid'
HeaderCapital ==
    <<<<"S","e","n","t","i","m","e","n","t">>, ColMessage, ColTweetid>>

\* a header without the tweetid column: 'sentiment,message,id'
HeaderNoTweetid == <<ColSentiment, ColMessage, <<"i","d">>>>

\* a file that read_csv can read
Csv(columns, rows) == [found |-> TRUE, frame |-> [columns |-> columns, rows |-> rows]]

\* no file at the path
FileMissing == [found |-> FALSE]

\* a header line and no row
FileEmpty == Csv(Header, <<>>)

\* two tweets, one pro and one anti
ScenarioRows == <<<<1, MsgSolar, 1>>, <<-1, MsgFake, 2>>>>

\* two pro tweets and one anti tweet, and a fourth row that repeats a tweetid
FileMajority ==
    Csv(Header, <<<<1, <<" ">> \o MsgWind \o <<" ">>, 1>>, <<1, MsgSolar, 2>>,
                  <<-1, MsgFake, 3>>, <<0, MsgKeywords, 3>>>>)

\* the two tweets under the header with a capital
FileCapital == Csv(HeaderCapital, ScenarioRows)

\* the two tweets under the header without tweetid
FileNoTweetid == Csv(HeaderNoTweetid, ScenarioRows)

\* one row whose message is blank
FileBlank == Csv(Header, <<<<1, <<" ", " ">>, 1>>>>)

\* a sentiment code outside the four classes, and a row without message
FileUnknown == Csv(Header, <<<<3, MsgWind, 1>>, <<2, Missing, 2>>>>)

\* what the file at data_file can hold when the application reads it
Files ==
    {FileMissing, FileEmpty, FileMajority, FileCapital, FileNoTweetid,
     FileBlank, FileUnknown}

----------------------------------------------------------------------------
(* SentimentAnalysisApp (src/main.py) *)

\* self.processed_data, or the data an analyzer or a visualizer holds
Frame(d) == [records |-> d]

\* the application after __init__; results_data is a history field: the
\* processed_data the analyzer held when it gave analysis_results
NewApp ==
    [data_loader |-> None, analyzer |-> None, visualizer |-> None,
     processed_data |-> None, analysis_results |-> None,
     results_data |-> None]

\* what a method of the application leaves: the application, the value it
\* returns, the steps of the pipeline invoked with what each returned, the
\* methods of the components it called, the events of its logger and the
\* files it wrote
Left(a, result, step, calls, events, outputs) ==
    [app |-> a, result |-> result,
     steps |-> <<[name |-> step, result |-> result]>>,
     calls |-> calls, log |-> events, outputs |-> outputs]

ValueError(msg) == [type |-> "ValueError", msg |-> msg]

\* load_and_preprocess_data, the file at data_file holding file
load_and_preprocess_data(a, file) ==
    LET op == "load_and_preprocess_data"
        start == Info("Starting data loading and preprocessing")
        failed == "Error in data loading and preprocessing"
        raw_data == load_data(file)
        \* DataLoader(self.data_file) and the frame read_csv gave it
        loader == [data |-> IF file.found THEN file.frame ELSE None]
        a1 == [a EXCEPT !.data_loader = loader]
    IN  IF raw_data.kind = "raise"
        THEN Left(a1, FALSE, op, <<"load_data">>,
                  <<start, Error(failed, raw_data.error)>>, <<>>)
        ELSE
        With(preprocess_data(raw_data.value), LAMBDA processed :
          IF processed.kind = "raise"
          THEN Left(a1, FALSE, op, <<"load_data", "preprocess_data">>,
                    <<start, Info("Loaded raw records"),
                      Error(failed, processed.error)>>, <<>>)
          ELSE
          LET a2 == [a1 EXCEPT !.processed_data = Frame(processed.value)]
              summary == get_data_summary(raw_data.value)
              calls == <<"load_data", "preprocess_data", "get_data_summary">>
              events == <<start, Info("Loaded raw records"),
                          Info("Preprocessed records")>>
          IN  IF summary.kind = "raise"
              THEN Left(a2, FALSE, op, calls,
                        Append(events, Error(failed, summary.error)), <<>>)
              ELSE Left(a2, TRUE, op, calls,
                        Append(events, Info("Data summary")), <<>>))

\* the scorer that gives the outcome score for every message of d
UniformScorer(d, score) == [m \in {d[i].message : i \in DOMAIN d} |-> score]

\* self.analyzer.generate_insights_report() on the data d
AnalyzerReport(d, score) ==
    With(analyze_sentiment_distribution(d), LAMBDA dist :
        generate_insights_report(
            dist, identify_key_themes(d, DefaultTopN), analyze_text_patterns(d),
            IF dist.kind = "raise" THEN NotCalled
            ELSE perform_advanced_sentiment_analysis(d, UniformScorer(d, score)),
            NoFault).outcome)

\* lines 74-83: the analyzer is built on d and asked for its report
RunAnalyzer(a, d, score) ==
    LET op == "perform_analysis"
        start == Info("Starting sentiment analysis")
        a1 == [a EXCEPT !.analyzer = Frame(d)]
    IN  With(AnalyzerReport(d, score), LAMBDA report :
          IF report.kind = "raise"
          THEN Left(a1, FALSE, op, <<"generate_insights_report">>,
                    <<start, Error("Error in sentiment analysis", report.error)>>,
                    <<>>)
          ELSE Left([a1 EXCEPT !.analysis_results = report.value,
                               !.results_data = Frame(d)],
                    TRUE, op, <<"generate_insights_report">>,
                    <<start, Info("Sentiment analysis completed successfully")>>,
                    <<>>))

\* mutant of perform_analysis: without loaded data the analyzer runs on an
\* empty collection
perform_analysis_unguarded(a, score) ==
    RunAnalyzer(a, IF a.processed_data = None THEN <<>>
                   ELSE a.processed_data.records, score)

\* perform_analysis, TextBlob giving score for every message
perform_analysis(a, score) ==
    IF a.processed_data = None
    THEN Left(a, FALSE, "perform_analysis", <<>>,
              <<Error("Error in sentiment analysis",
                      ValueError("Data must be loaded before analysis"))>>,
              <<>>)
    ELSE RunAnalyzer(a, a.processed_data.records, score)

\* the files create_comprehensive_dashboard saves, in order
Plots == <<"sentiment_distribution.png", "theme_analysis.png",
           "text_patterns.png", "interactive_dashboard.html">>

\* an exception of the plotting libraries or of the disk
PlotError == [type |-> "OSError", raised_by |-> "create_comprehensive_dashboard"]

\* create_visualizations, the dashboard saving its first `saved` files before
\* it raises (all of them: it returns)
create_visualizations(a, saved) ==
    LET op == "create_visualizations"
        failed == "Error in visualization creation"
    IN  IF a.processed_data = None \/ a.analysis_results = None
        THEN Left(a, FALSE, op, <<>>,
                  <<Error(failed, ValueError(
                      "Data and analysis results must be available before visualization"))>>,
                  <<>>)
        ELSE
        LET a1 == [a EXCEPT !.visualizer = Frame(a.processed_data.records)]
            outputs == Seq1([i \in 1..saved |-> [file |-> Plots[i]]])
            start == Info("Starting visualization creation")
        IN  IF saved < Len(Plots)
            THEN Left(a1, FALSE, op, <<"create_comprehensive_dashboard">>,
                      <<start, Error(failed, PlotError)>>, outputs)
            ELSE Left(a1, TRUE, op, <<"create_comprehensive_dashboard">>,
                      <<start, Info("Visualizations created and saved"),
                        Info("Saved plots")>>, outputs)

\* lines 165-172 of _write_text_report: the lines of the SENTIMENT
\* DISTRIBUTION section; the label at position i of sentiment_label_counts
\* is written with the percentage of the code at position i of
\* sentiment_counts
DistributionLines(sentiment_dist) ==
    Seq1([i \in DOMAIN sentiment_dist.sentiment_label_counts |->
            [sentiment |-> sentiment_dist.sentiment_label_counts[i].key,
             count |-> sentiment_dist.sentiment_label_counts[i].val,
             percentage |->
                 Get(sentiment_dist.sentiment_percentages,
                     sentiment_dist.sentiment_counts[i].key, 0)]])

\* what _write_text_report and _write_csv_summary write, in order
Reports(results) ==
    <<[file |-> "sentiment_analysis_report.txt",
       dominant_sentiment |-> results.key_findings.dominant_sentiment,
       distribution |->
           DistributionLines(results.detailed_analysis.sentiment_distribution)],
      [file |-> "sentiment_summary.csv",
       sentiment_distribution |->
           results.detailed_analysis.sentiment_distribution.sentiment_counts]>>

\* an exception of open() or of to_csv
WriteError == [type |-> "OSError", raised_by |-> "generate_report"]

\* generate_report, the writers writing the first `written` files before one
\* raises (both of them: it returns)
generate_report(a, written) ==
    LET op == "generate_report"
        failed == "Error in report generation"
        writers == <<"_write_text_report", "_write_csv_summary">>
    IN  IF a.analysis_results = None
        THEN Left(a, FALSE, op, <<>>,
                  <<Error(failed, ValueError(
                      "Analysis results must be available before report generation"))>>,
                  <<>>)
        ELSE
        LET outputs == Prefix(Reports(a.analysis_results), written)
            start == Info("Generating comprehensive report")
        IN  IF written < Len(writers)
            THEN Left(a, FALSE, op, Prefix(writers, written + 1),
                      <<start, Error(failed, WriteError)>>, outputs)
            ELSE Left(a, TRUE, op, writers,
                      <<start, Info("Reports generated and saved")>>, outputs)

\* mutant of Then: the step runs whatever the steps before it returned
ThenRegardless(before, step) ==
    [app |-> step.app, result |-> before.result /\ step.result,
     steps |-> before.steps \o step.steps,
     calls |-> before.calls \o step.calls, log |-> before.log \o step.log,
     outputs |-> before.outputs \o step.outputs]

\* 'if not self.<step>(): return False': the step is invoked when every step
\* before it returned True
Then(before, step) ==
    IF ~before.result THEN before
    ELSE [app |-> step.app, result |-> step.result,
          steps |-> before.steps \o step.steps,
          calls |-> before.calls \o step.calls, log |-> before.log \o step.log,
          outputs |-> before.outputs \o step.outputs]

\* lines 238-246 of run_complete_analysis: the first two steps
LoadThenAnalyse(a, file, score) ==
    With(Then([app |-> a, result |-> TRUE, steps |-> <<>>, calls |-> <<>>,
               log |-> <<Info("Starting complete sentiment analysis pipeline")>>,
               outputs |-> <<>>],
              load_and_preprocess_data(a, file)),
         LAMBDA step1 : Then(step1, perform_analysis(step1.app, score)))

\* lines 248-257 of run_complete_analysis: the last two steps and the end
VisualizeThenReport(step2, saved, written) ==
    With(Then(step2, create_visualizations(step2.app, saved)), LAMBDA step3 :
        With(Then(step3, generate_report(step3.app, written)), LAMBDA step4 :
            IF step4.result
            THEN [step4 EXCEPT !.log = Append(@, Info(
                    "Complete sentiment analysis pipeline finished successfully"))]
            ELSE step4))

\* what TextBlob gives for the messages of the files
AppScores == {Scored(5, 8)}

\* the outcome of a method of the application, as the menu loop gets it
AppCalled(op, args, left) ==
    Called(op, args, Return(left.result))
        @@ [steps |-> left.steps, calls |-> left.calls, outputs |-> left.outputs]

\* menu choice 1
LoadAndPreprocessData ==
    /\ \E file \in Files :
         \E left \in {load_and_preprocess_data(app, file)} :
            /\ app' = left.app
            /\ ret' = AppCalled("load_and_preprocess_data", [file |-> file], left)
            /\ log' = left.log
    /\ UNCHANGED <<data, sampler, earlier>>

\* menu choice 2
PerformAnalysis ==
    /\ \E score \in AppScores :
         \E left \in {perform_analysis(app, score)} :
            /\ app' = left.app
            /\ ret' = AppCalled("perform_analysis", [score |-> score], left)
            /\ log' = left.log
    /\ UNCHANGED <<data, sampler, earlier>>

\* menu choice 3
CreateVisualizations ==
    /\ \E saved \in 0..Len(Plots) :
         \E left \in {create_visualizations(app, saved)} :
            /\ app' = left.app
            /\ ret' = AppCalled("create_visualizations", [saved |-> saved], left)
            /\ log' = left.log
    /\ UNCHANGED <<data, sampler, earlier>>

\* menu choice 4
GenerateReport ==
    /\ \E written \in 0..2 :
         \E left \in {generate_report(app, written)} :
            /\ app' = left.app
            /\ ret' = AppCalled("generate_report", [written |-> written], left)
            /\ log' = left.log
    /\ UNCHANGED <<data, sampler, earlier>>

\* menu choice 5, and the run without --interactive: run_complete_analysis;
\* the dashboard and the writers save everything or nothing
RunCompleteAnalysis ==
    /\ \E file \in Files, score \in AppScores :
         \E step2 \in {LoadThenAnalyse(app, file, score)} :
           \E saved \in IF step2.result THEN {0, Len(Plots)} ELSE {0} :
             \E written \in IF step2.result /\ saved = Len(Plots)
                            THEN {0, 2} ELSE {0} :
               \E left \in {VisualizeThenReport(step2, saved, written)} :
                 /\ app' = left.app
                 /\ ret' = AppCalled("run_complete_analysis",
                                     [file |-> file, score |-> score,
                                      saved |-> saved, written |-> written],
                                     left)
                 /\ log' = left.log
    /\ UNCHANGED <<data, sampler, earlier>>

\* main(): the application is built; nothing is loaded
AppInit ==
    /\ app = NewApp
    /\ data = <<>>
    /\ ret = None
    /\ log = <<Info("Sentiment Analysis Application initialized")>>
    /\ sampler = None
    /\ earlier = None

\* the menu loop of lines 320-375: the choices that change the application
AppNext ==
    \/ LoadAndPreprocessData
    \/ PerformAnalysis
    \/ CreateVisualizations
    \/ GenerateReport
    \/ RunCompleteAnalysis

AppSpec == AppInit /\ [][AppNext]_vars

----------------------------------------------------------------------------
(* Properties *)

\* the call op has returned a value
Returned(op) == ret.op = op /\ ret.kind = "return"

Range(seq) == {seq[i] : i \in DOMAIN seq}

\* the sentiment column of the collection, and the records of one code
Codes == Column(data, "sentiment")
Records(c) == CountOf(Codes, c)

FaultReached(fault) ==
    IF fault = Steps[5]
    THEN Info(DoneMsg(Steps[4])) \in Range(log)
    ELSE Info(StartMsg(fault)) \in Range(log)

\* C2: generate_insights_report fails fast.  An error that one of its steps
\* logs is the error the caller gets; a step that is reached and fails makes
\* the call raise that step's error; and a call that raises carries an error
\* and no report.
C2_FailFast ==
    ret.op = "generate_insights_report" =>
        /\ \A k \in DOMAIN log :
               log[k].level = "error" =>
                   ret.kind = "raise" /\ ret.out.error = log[k].error
        /\ (ret.args.fault # NoFault /\ FaultReached(ret.args.fault)) =>
               ret.kind = "raise" /\ ret.out.error = Unexpected(ret.args.fault)
        /\ ret.kind = "raise" => DOMAIN ret.out = {"kind", "error"}
        /\ ret.kind = "return" => ret.args.fault = NoFault

C2_Witness ==
    /\ ret.op = "generate_insights_report"
    /\ ret.args.fault = Steps[5]
    /\ ret.kind = "raise"
    /\ ret.out.error = Unexpected(Steps[5])
    /\ Len(data) > 1

\* C3: a report that is returned has exactly the four top-level sections,
\* its most_common_themes are the first five top_themes of the detailed
\* theme analysis, its sentiment_balance is the one of the detailed
\* distribution, and its total_tweets is the number of records.
C3_ReportShape ==
    Returned("generate_insights_report") =>
        LET report == ret.out.value
        IN  /\ DOMAIN report = {"dataset_overview", "key_findings",
                                "detailed_analysis", "recommendations"}
            /\ report.key_findings.most_common_themes =
                   Prefix(report.detailed_analysis.theme_analysis.top_themes, 5)
            /\ report.key_findings.sentiment_balance =
                   report.detailed_analysis.sentiment_distribution.sentiment_balance
            /\ report.dataset_overview.total_tweets = Len(data)

C3_Witness ==
    /\ Returned("generate_insights_report")
    /\ Len(ret.out.value.detailed_analysis.theme_analysis.top_themes) > 5
    /\ Len(ret.out.value.key_findings.most_common_themes) = 5

\* the message of the fifth rule for the report's own top themes
ReportFocus(report) ==
    LET themes == Prefix(report.detailed_analysis.theme_analysis.top_themes, 5)
    IN  FocusMessage([i \in DOMAIN themes |-> Str(themes[i].key)])

\* C4: in the recommendations of a report each rule has fired exactly when
\* its guard holds for the report's balance and climate-related words, and
\* the themes-focus message is always there.
C4_RulesFireIffGuard ==
    Returned("generate_insights_report") =>
        LET report == ret.out.value
            balance == report.detailed_analysis.sentiment_distribution.sentiment_balance
            climate == report.detailed_analysis.theme_analysis.climate_related_words
            given == Range(report.recommendations)
        IN  /\ AntiMessage \in given <=>
                   balance.anti_climate > balance.pro_climate
            /\ NeutralMessage \in given <=>
                   balance.neutral > balance.pro_climate + balance.anti_climate
            /\ ProMessage \in given <=>
                   balance.pro_climate > balance.anti_climate
            /\ LimitedMessage \in given <=>
                   Cardinality({climate[i].key : i \in DOMAIN climate}) < 10
            /\ ReportFocus(report) \in given

\* anti and pro tie and there are exactly ten climate-related words: only
\* the fifth rule fires
C4_Witness ==
    /\ Returned("generate_insights_report")
    /\ LET report == ret.out.value
           balance == report.detailed_analysis.sentiment_distribution.sentiment_balance
       IN  /\ balance.anti_climate = balance.pro_climate
           /\ balance.anti_climate > 0
           /\ Len(report.detailed_analysis.theme_analysis.climate_related_words) = 10
           /\ report.recommendations = <<ReportFocus(report)>>

\* the rule a recommendation comes from
RuleOf(message) ==
    CASE message = AntiMessage -> 1
      [] message = NeutralMessage -> 2
      [] message = ProMessage -> 3
      [] message = LimitedMessage -> 4
      [] OTHER -> 5

\* C5: the recommendations are in the order of their rules, no rule gives
\* more than one of them, and the themes-focus message is the last.
C5_RuleOrder ==
    Returned("generate_insights_report") =>
        LET report == ret.out.value
            recs == report.recommendations
        IN  /\ recs # <<>>
            /\ recs[Len(recs)] = ReportFocus(report)
            /\ \A i, j \in DOMAIN recs :
                   i < j => RuleOf(recs[i]) < RuleOf(recs[j])

\* rules 2, 3, 4 and 5 fire together
C5_Witness ==
    /\ Returned("generate_insights_report")
    /\ LET report == ret.out.value
       IN  report.recommendations =
               <<NeutralMessage, ProMessage, LimitedMessage, ReportFocus(report)>>

\* C6: the dominant sentiment is a code of the collection with the largest
\* number of records, and the lowest of the codes that have that number.
C6_DominantIsLowestMax ==
    Returned("analyze_sentiment_distribution") =>
        LET dominant == ret.out.value.dominant_sentiment
        IN  /\ dominant \in Range(Codes)
            /\ \A c \in Range(Codes) :
                   \/ Records(c) < Records(dominant)
                   \/ Records(c) = Records(dominant) /\ dominant <= c

\* two codes tie for the largest count and the higher one comes first in the
\* collection
C6_Witness ==
    /\ Returned("analyze_sentiment_distribution")
    /\ Len(data) = 2
    /\ data[1].sentiment = 2
    /\ data[2].sentiment = -1
    /\ ret.out.value.dominant_sentiment = -1

\* the sum of the percentages of a distribution, in hundredths of a percent
PercentSum(distribution) ==
    Sum([i \in DOMAIN distribution.sentiment_percentages |->
            distribution.sentiment_percentages[i].val])

\* C7: the percentages of a distribution sum to 100 within 0.1.
C7_PercentagesSumTo100 ==
    Returned("analyze_sentiment_distribution") =>
        /\ PercentSum(ret.out.value) >= 10000 - 10
        /\ PercentSum(ret.out.value) <= 10000 + 10

\* three codes with a third of the records each: 3 * 33.33 = 99.99
C7_Witness ==
    /\ Returned("analyze_sentiment_distribution")
    /\ PercentSum(ret.out.value) = 9999

\* C8: pro_climate is the number of records with code 1 plus the number
\* with code 2, anti_climate the number with code -1 and neutral the number
\* with code 0 (0 for a code that has no record).
C8_BalanceTriple ==
    Returned("analyze_sentiment_distribution") =>
        ret.out.value.sentiment_balance =
            [pro_climate |-> Records(1) + Records(2),
             anti_climate |-> Records(-1),
             neutral |-> Records(0)]

\* codes 1 and 2 both have records, code 0 has none
C8_Witness ==
    /\ Returned("analyze_sentiment_distribution")
    /\ Records(1) > 0 /\ Records(2) > 0 /\ Records(0) = 0
    /\ ret.out.value.sentiment_balance.pro_climate = Records(1) + Records(2)
    /\ ret.out.value.sentiment_balance.neutral = 0

\* the position at which the token is first met in the words
FirstSeen(words, token) ==
    CHOOSE i \in DOMAIN words :
        words[i] = token /\ \A j \in 1..(i - 1) : words[j] # token

\* token a comes before token b in the frequency table of the words: it
\* occurs more often, or as often and was met first
Precedes(words, a, b) ==
    \/ CountOf(words, a) > CountOf(words, b)
    \/ /\ CountOf(words, a) = CountOf(words, b)
       /\ FirstSeen(words, a) < FirstSeen(words, b)

\* top is the first min(n, number of distinct tokens) entries of the
\* frequency table of the words
IsTopOf(top, words, n) ==
    /\ Len(top) = Min(n, Cardinality(Range(words)))
    /\ \A i \in DOMAIN top :
           /\ top[i].key \in Range(words)
           /\ top[i].val = CountOf(words, top[i].key)
           /\ \A j \in (i + 1)..Len(top) :
                  Precedes(words, top[i].key, top[j].key)
           /\ \A w \in Range(words) \ {top[k].key : k \in DOMAIN top} :
                  Precedes(words, top[i].key, w)

\* C9: top_themes is the first min(top_n, number of distinct tokens) entries
\* of the frequency table of the tokens of the concatenated messages, by
\* descending count, tokens of equal count in the order they were first met.
C9_TopThemesOrder ==
    Returned("identify_key_themes") =>
        \A words \in {FilteredWords(JoinSpace(Column(data, "message")))} :
            IsTopOf(ret.out.value.top_themes, words, ret.args.top_n)

\* "solar" and "fake" tie with two occurrences each; "solar" was met first
\* and the table is cut after the two of them
C9_Witness ==
    /\ Returned("identify_key_themes")
    /\ ret.args.top_n = 2
    /\ ret.out.value.total_unique_words > 2
    /\ Len(ret.out.value.top_themes) = 2
    /\ Str(ret.out.value.top_themes[1].key) = "solar"
    /\ Str(ret.out.value.top_themes[2].key) = "fake"
    /\ ret.out.value.top_themes[1].val = ret.out.value.top_themes[2].val

\* the tokens of the tables identify_key_themes returns
CountedTokens(themes) ==
    {themes.top_themes[i].key : i \in DOMAIN themes.top_themes}
    \cup {themes.climate_related_words[i].key :
             i \in DOMAIN themes.climate_related_words}
    \cup UNION {{themes.theme_by_sentiment[c][i].key :
                    i \in DOMAIN themes.theme_by_sentiment[c]} :
                c \in DOMAIN themes.theme_by_sentiment}

\* C10: every token that identify_key_themes counts is made of lowercase
\* letters and digits only, is longer than two characters and is not a
\* stop word.
C10_TokensAlphanumeric ==
    Returned("identify_key_themes") =>
        \A token \in CountedTokens(ret.out.value) :
            /\ \A i \in DOMAIN token : token[i] \in LowerLetters \cup Digits
            /\ Len(token) > 2
            /\ Str(token) \notin stop_words

\* the filtered words of each record's own message, in row order
WordsByRecord == Seq1([i \in DOMAIN data |-> FilteredWords(data[i].message)])

\* the number of times token occurs among words, the filtered words of each
\* record, in the records of sentiment c alone
ClassCount(words, c, token) ==
    Sum([i \in DOMAIN data |->
            IF data[i].sentiment = c THEN CountOf(words[i], token) ELSE 0])

\* C11: for each sentiment code c of the contract, theme_by_sentiment[c] has
\* at most 10 entries, and each entry is a token that the tokenizer produces
\* from a message of a record of sentiment c, with the number of times it
\* occurs in those records alone (each message tokenized on its own: nothing
\* comes from another class or from text that spans two records).
C11_ClassThemes ==
    Returned("identify_key_themes") =>
        With(WordsByRecord, LAMBDA words :
            \A c \in ContractCodes :
                LET table == ret.out.value.theme_by_sentiment[c]
                IN  /\ Len(table) <= 10
                    /\ \A i \in DOMAIN table :
                          /\ table[i].val > 0
                          /\ table[i].val = ClassCount(words, c, table[i].key))

\* a class table cut to 10 entries: the class has more distinct tokens
C11_Witness ==
    /\ Returned("identify_key_themes")
    /\ \E c \in ContractCodes :
          /\ Len(ret.out.value.theme_by_sentiment[c]) = 10
          /\ Records(c) = Len(data)
    /\ ret.out.value.total_unique_words > 10

\* a climate keyword occurs in the token
HasKeyword(token) ==
    \E i \in DOMAIN token : \E j \in i..Len(token) :
        Str(SubSeq(token, i, j)) \in climate_keywords

\* the number of times token occurs among words, the filtered words of each
\* record
GlobalCount(words, token) ==
    Sum([i \in DOMAIN words |-> CountOf(words[i], token)])

\* C12: climate_related_words holds exactly the tokens of the global
\* frequency table in which at least one climate keyword occurs, each once
\* and with its global count.
C12_ClimateWords ==
    Returned("identify_key_themes") =>
        With(WordsByRecord, LAMBDA words :
            LET climate == ret.out.value.climate_related_words
            IN  /\ \A i \in DOMAIN climate :
                      /\ HasKeyword(climate[i].key)
                      /\ climate[i].val = GlobalCount(words, climate[i].key)
                      /\ \A j \in DOMAIN climate :
                            climate[j].key = climate[i].key => j = i
                /\ \A r \in DOMAIN words : \A k \in DOMAIN words[r] :
                      HasKeyword(words[r][k]) =>
                          \E i \in DOMAIN climate : climate[i].key = words[r][k])

\* a table with a token that is a keyword counted more than once, a token
\* that holds a keyword without being one, and a token left out
C12_Witness ==
    /\ Returned("identify_key_themes")
    /\ LET climate == ret.out.value.climate_related_words
       IN  /\ \E i \in DOMAIN climate :
                 Str(climate[i].key) \in climate_keywords /\ climate[i].val > 1
           /\ \E i \in DOMAIN climate : Str(climate[i].key) \notin climate_keywords
           /\ Len(climate) < ret.out.value.total_unique_words

\* the call of perform_advanced_sentiment_analysis has ended, and the caller
\* keeps a call made before with the same scorer
CalledAgain ==
    /\ ret.op = "perform_advanced_sentiment_analysis"
    /\ earlier # None
    /\ earlier.scorer = ret.args.scorer

C14_SampleSize ==
    ret.op = "perform_advanced_sentiment_analysis" =>
        LET size == IF Len(data) < 5000 THEN Len(data) ELSE 5000
        IN  /\ Len(sampler.sample_data) = size
            /\ Range(sampler.sample_data) \subseteq DOMAIN data
            /\ Cardinality(Range(sampler.sample_data)) = size
            /\ Len(sampler.textblob_sentiments) = size
            /\ Len(sampler.textblob_subjectivities) = size
            /\ ret.kind = "return" =>
                  /\ ret.out.value.sample_size = size
                  /\ ret.out.value.textblob_polarity.mean.den = size
                  /\ ret.out.value.textblob_subjectivity.mean.den = size

\* a collection of more than 5000 records, sampled and scored, with
\* messages that are scored and messages that are degraded
C14_Witness ==
    /\ Returned("perform_advanced_sentiment_analysis")
    /\ Len(data) > 5000
    /\ ret.out.value.sample_size = 5000
    /\ 0 \in Range(sampler.textblob_subjectivities)
    /\ 8 \in Range(sampler.textblob_subjectivities)

\* what the scorer of the call gives for the i-th sampled message
ScoreOf(i) == ret.args.scorer[data[sampler.sample_data[i]].message]

\* C15: when the scorer fails for a sampled message, that message counts as
\* polarity 0 and subjectivity 0, every other sampled message counts with
\* the scores the scorer gives it, and the call returns its aggregates
\* over all of them: a scorer failure never ends the call with an error.
C15_ScorerFailureDegrades ==
    (ret.op = "perform_advanced_sentiment_analysis" /\ data # <<>>) =>
        /\ ret.kind = "return"
        /\ DOMAIN sampler.textblob_sentiments = DOMAIN sampler.sample_data
        /\ DOMAIN sampler.textblob_subjectivities = DOMAIN sampler.sample_data
        /\ \A i \in DOMAIN sampler.sample_data :
              /\ sampler.textblob_sentiments[i] =
                    IF ScoreOf(i).ok THEN ScoreOf(i).polarity ELSE 0
              /\ sampler.textblob_subjectivities[i] =
                    IF ScoreOf(i).ok THEN ScoreOf(i).subjectivity ELSE 0
        /\ ret.out.value.textblob_polarity.mean =
              Frac(Sum([i \in DOMAIN sampler.sample_data |->
                          IF ScoreOf(i).ok THEN ScoreOf(i).polarity ELSE 0]),
                   Len(sampler.sample_data))
        /\ ret.out.value.textblob_subjectivity.mean =
              Frac(Sum([i \in DOMAIN sampler.sample_data |->
                          IF ScoreOf(i).ok THEN ScoreOf(i).subjectivity ELSE 0]),
                   Len(sampler.sample_data))

\* two records: the scorer fails for one message and scores the other
C15_Witness ==
    /\ Returned("perform_advanced_sentiment_analysis")
    /\ Len(data) = 2
    /\ \E i, j \in DOMAIN sampler.sample_data :
          ~ScoreOf(i).ok /\ ScoreOf(j).ok
    /\ ret.out.value.textblob_polarity.mean = Frac(5, 2)
    /\ ret.out.value.textblob_polarity.min = 0

\* the sampled messages whose scoring fails
FailedScores == {i \in DOMAIN sampler.sample_data : ~ScoreOf(i).ok}

\* C16: every scoring failure of perform_advanced_sentiment_analysis is
\* logged: besides the event of its start and the event of its end, the
\* call sends the logger one event for each sampled message whose scoring
\* fails.
C16_ScoringFailuresLogged ==
    ret.op = "perform_advanced_sentiment_analysis" =>
        Len(log) >= 2 + Cardinality(FailedScores)

\* the records [{sentiment 1, "solar solar wind"}, {sentiment -1,
\* "fake hoax fake"}]
ScenarioData == <<Record(1, MsgSolar), Record(-1, MsgFake)>>

\* C17: on the records [{1, "solar solar wind"}, {-1, "fake hoax fake"}] the
\* distribution counts are {1: 1, -1: 1}, the first of the global top
\* themes is 'solar' with count 2, anti_climate = pro_climate = 1, and the
\* report's recommendations are exactly two: the limited-terminology
\* message of rule 4, then the themes message of rule 5 (neither rule 1 nor
\* rule 3 fires).
C17_Scenario ==
    data = ScenarioData =>
        /\ Returned("analyze_sentiment_distribution") =>
              /\ Range(ret.out.value.sentiment_counts) =
                    {[key |-> 1, val |-> 1], [key |-> -1, val |-> 1]}
              /\ Len(ret.out.value.sentiment_counts) = 2
              /\ ret.out.value.sentiment_balance.anti_climate = 1
              /\ ret.out.value.sentiment_balance.pro_climate = 1
        /\ (Returned("identify_key_themes") /\ ret.args.top_n > 0) =>
              /\ Str(ret.out.value.top_themes[1].key) = "solar"
              /\ ret.out.value.top_themes[1].val = 2
        /\ Returned("generate_insights_report") =>
              /\ ret.out.value.recommendations =
                    <<"Limited climate-specific terminology. Consider expanding climate change vocabulary.",
                      "Focus on key themes: solar, fake, wind, hoax">>
              /\ AntiMessage \notin Range(ret.out.value.recommendations)
              /\ ProMessage \notin Range(ret.out.value.recommendations)

\* the report of the two records
C17_Witness ==
    /\ data = ScenarioData
    /\ Returned("generate_insights_report")
    /\ Len(ret.out.value.recommendations) = 2

\* the climate-related words as a set of <<word, count>>
ClimateWords(themes) ==
    {<<Str(themes.climate_related_words[i].key),
       themes.climate_related_words[i].val>> :
        i \in DOMAIN themes.climate_related_words}

\* C18, as the code has it: on the records [{1, "solar solar wind"}, {-1,
\* "fake hoax fake"}] the tokens solar and wind are climate keywords
\* themselves and fake and hoax hold none, so the climate-related words are
\* solar (count 2) and wind (count 1): 2 distinct tokens, fewer than 10.
C18_ScenarioClimateWords ==
    (data = ScenarioData /\ Returned("identify_key_themes")) =>
        /\ Len(ret.out.value.climate_related_words) = 2
        /\ ClimateWords(ret.out.value) = {<<"solar", 2>>, <<"wind", 1>>}
        /\ {"solar", "wind"} \subseteq climate_keywords
        /\ Len(ret.out.value.climate_related_words) < 10

\* identify_key_themes has returned on the two records
C18_Witness ==
    /\ data = ScenarioData
    /\ Returned("identify_key_themes")
    /\ ret.out.value.total_unique_words = 4

\* C18, as stated: on these records no token matches a climate keyword and
\* the climate-related words are empty.
C18_Original ==
    (data = ScenarioData /\ Returned("identify_key_themes")) =>
        ret.out.value.climate_related_words = <<>>

\* n * n times the population variance (divisor n) of the n values
PopulationSpread(vals) ==
    Len(vals) * Sum([i \in DOMAIN vals |-> vals[i] * vals[i]])
        - Sum(vals) * Sum(vals)

\* the fraction is a number, and it is num / den
IsFraction(f, num, den) == f.den # 0 /\ f.num * den = num * f.den

\* C19: the standard deviations that analyze_text_patterns reports for
\* text_length and word_count are population standard deviations (divisor
\* n): their squares are the population variances of the two columns, and
\* both are 0 for a collection of one record.
C19_PopulationStd ==
    (Returned("analyze_text_patterns") /\ data # <<>>) =>
        LET lengths == Column(data, "text_length")
            words == Column(data, "word_count")
            n == Len(data)
        IN  /\ IsFraction(ret.out.value.text_length_stats.std_length,
                          PopulationSpread(lengths), n * n)
            /\ IsFraction(ret.out.value.word_count_stats.std_words,
                          PopulationSpread(words), n * n)
            /\ n = 1 =>
                  /\ IsFraction(ret.out.value.text_length_stats.std_length, 0, 1)
                  /\ IsFraction(ret.out.value.word_count_stats.std_words, 0, 1)

\* a record of the collection has a sentiment outside the contract
Malformed == \E i \in DOMAIN data : data[i].sentiment \notin {-1, 0, 1, 2}

\* C20: on a collection with a malformed record (a sentiment outside
\* {-1, 0, 1, 2}) the call fails with an error and gives no distribution
\* and no report: the record is not accepted silently.
C20_MalformedRecordRejected ==
    (/\ Malformed
     /\ ret.op \in {"analyze_sentiment_distribution",
                    "generate_insights_report"}) =>
        ret.kind = "raise"

\* the steps of the pipeline, in order
PipelineSteps == <<"load_and_preprocess_data", "perform_analysis",
                   "create_visualizations", "generate_report">>

\* C21: run_complete_analysis invokes load/preprocess, analysis,
\* visualization and report writing in that order and stops at the first
\* step that returns False: every step before the last invoked one returned
\* True, the run returns True exactly when all four steps were invoked and
\* all returned True, and after a failed load or a failed analysis neither
\* the dashboard nor a report writer is called and no file is written.
C21_PipelineStopsAtFirstFailure ==
    ret.op = "run_complete_analysis" =>
        LET n == Len(ret.steps)
        IN  /\ n \in 1..Len(PipelineSteps)
            /\ \A i \in 1..n : ret.steps[i].name = PipelineSteps[i]
            /\ \A i \in 1..(n - 1) : ret.steps[i].result
            /\ ret.out.value = (n = Len(PipelineSteps) /\ ret.steps[n].result)
            /\ (n <= 2 /\ ~ret.steps[n].result) =>
                 /\ ret.outputs = <<>>
                 /\ Range(ret.calls) \cap
                        {"create_comprehensive_dashboard", "_write_text_report",
                         "_write_csv_summary"} = {}

\* a run whose load succeeds and whose analysis fails
C21_Witness ==
    /\ ret.op = "run_complete_analysis"
    /\ Len(ret.steps) = 2
    /\ ret.steps[1].result
    /\ ~ret.steps[2].result
    /\ ~ret.out.value

\* C22: every record of processed_data has a non-empty message, a
\* text_length equal to the length of the message, a word_count of at least
\* 1 and the sentiment_label that -1->Anti, 0->Neutral, 1->Pro, 2->News
\* gives for its sentiment, never a missing one.
C22_RecordInvariant ==
    app.processed_data # None =>
        \A i \in DOMAIN app.processed_data.records :
            LET r == app.processed_data.records[i]
            IN  /\ r.message # <<>>
                /\ r.text_length = Len(r.message)
                /\ r.word_count >= 1
                /\ r.sentiment_label \in {"Anti", "Neutral", "Pro", "News"}
                /\ r.sentiment \in ContractCodes
                /\ r.sentiment_label = sentiment_mapping(r.sentiment)

\* C23: no operation of the analyzer changes the records it holds.
C23_DataNeverMutated == [][data' = data]_vars

\* the sampler has returned after it drew and scored a sample of every
\* record of a collection of MaxRecords records
C23_Witness ==
    /\ Returned("perform_advanced_sentiment_analysis")
    /\ Len(data) = MaxRecords
    /\ sampler # None
    /\ Len(sampler.sample_data) = MaxRecords
    /\ Len(sampler.textblob_sentiments) = MaxRecords

\* C24: for records of the four classes, the dominant label of a
\* distribution is the label of its dominant code, ties included.
C24_DominantLabelOfDominantCode ==
    (Returned("analyze_sentiment_distribution")
        /\ Range(Codes) \subseteq ContractCodes) =>
        ret.out.value.dominant_sentiment_label =
            sentiment_mapping(ret.out.value.dominant_sentiment)

\* the code of a label
CodeOf(label) == CHOOSE c \in ContractCodes : sentiment_mapping(c) = label

\* C25: each line of the SENTIMENT DISTRIBUTION section of the text report
\* shows the count of its label and the percentage of the code of its label.
C25_ReportLineOwnPercentage ==
    (ret.op = "generate_report" /\ ret.outputs # <<>>) =>
        LET sd == app.analysis_results.detailed_analysis.sentiment_distribution
            lines == ret.outputs[1].distribution
        IN  \A i \in DOMAIN lines :
                /\ lines[i].count =
                       Get(sd.sentiment_label_counts, lines[i].sentiment, 0)
                /\ lines[i].percentage =
                       Get(sd.sentiment_percentages, CodeOf(lines[i].sentiment), 0)

\* C26: analysis_results, when present, is the report of the analyzer on the
\* current processed_data; so the visualizer and the report writers never
\* work on results of another data set than the loaded one.
C26_ResultsOfCurrentData ==
    app.analysis_results # None => app.results_data = app.processed_data

\* C27: a load_and_preprocess_data that returns False leaves processed_data
\* as it was before the call.
C27_FailedLoadKeepsData ==
    [][(ret'.op = "load_and_preprocess_data" /\ ~ret'.out.value) =>
          app'.processed_data = app.processed_data]_vars

\* the step has returned False, called no component and written no file, and
\* processed_data and analysis_results are as before
Refused ==
    /\ ~ret'.out.value
    /\ ret'.calls = <<>>
    /\ ret'.outputs = <<>>
    /\ app'.processed_data = app.processed_data
    /\ app'.analysis_results = app.analysis_results

\* C28: perform_analysis runs the analyzer only when processed_data is
\* present, create_visualizations saves charts only when processed_data and
\* analysis_results are present, generate_report writes files only when
\* analysis_results is present; with a prerequisite missing the step returns
\* False, produces nothing and leaves processed_data and analysis_results
\* unchanged.
C28_PrerequisitesGuardSteps ==
    [][/\ (ret'.op = "perform_analysis" /\ app.processed_data = None)
            => Refused
       /\ (ret'.op = "create_visualizations"
            /\ (app.processed_data = None \/ app.analysis_results = None))
            => Refused
       /\ (ret'.op = "generate_report" /\ app.analysis_results = None)
            => Refused]_vars

\* perform_analysis was chosen before any data was loaded, and
\* create_visualizations after a load without analysis
C28_Witness ==
    \/ /\ ret.op = "perform_analysis"
       /\ ret.calls = <<>>
       /\ app.processed_data = None
    \/ /\ ret.op = "create_visualizations"
       /\ ret.calls = <<>>
       /\ app.processed_data # None
       /\ app.analysis_results = None

====
